---- MODULE Spec2Model ----
(***************************************************************************)
(* booksever: an Express proxy in front of a MEGA account (src/index.js).  *)
(*                                                                         *)
(* State: the module-level megaClient and recentUploads, the Storage       *)
(* objects created by getMegaClient, the account's file listing            *)
(* (client.files), the pending eviction timers, the wall clock, and the    *)
(* requests that are suspended at an await.                                *)
(*                                                                         *)
(* One action is one run-to-completion segment of the event loop: the code *)
(* of a handler between two awaits, a timer callback, or a step of the     *)
(* environment (the SDK settling a promise, the clock advancing).          *)
(* `out` holds what the last segment emitted (the HTTP response, or the    *)
(* SDK call it made).                                                      *)
(*                                                                         *)
(* Time is counted in units of 1000 ms.                                    *)
(***************************************************************************)
EXTENDS Integers, Sequences, FiniteSets, TLC

----------------------------------------------------------------------------
(* Bounds of the model *)

\* requests that may be suspended at an await at the same time
MaxInflight == 2
\* uploads the SDK completes in one run
MaxUploads == 2
\* Storage objects constructed in one run
MaxClients == 2
\* last instant of the clock
MaxTime == 4
\* UPLOAD_CACHE_TTL_MS (an environment setting), in units of 1000 ms
TtlUnits == 1
\* largest number of the systematic Range headers
MaxRangeNumber == 3
\* largest size of a file
MaxSize == 2

(* Program constants *)

\* the eviction timer's extra delay of 1000 ms, in units of 1000 ms
EvictPadUnits == 1

----------------------------------------------------------------------------
(* State *)

VARIABLES
    creds,          \* MEGA_EMAIL and MEGA_PASSWORD are both set
    megaClient,     \* the module's megaClient: 0 is null, else a Storage
    status,         \* each Storage's `ready` promise: unborn, pending, ready, failed
    reqs,           \* the requests suspended at an await, by slot
    files,          \* the account's listing, client.files of a connected Storage
    recentUploads,  \* the Map: handle -> [file, expiresAt]
    timers,         \* the pending setTimeout callbacks: [handle, due, id]
    now,            \* Date.now()
    nUploads,       \* uploads the SDK has completed
    answered,       \* handle -> the last upload answered with success for it
    out             \* what the last segment emitted

vars == <<creds, megaClient, status, reqs, files, recentUploads, timers, now,
          nUploads, answered, out>>

----------------------------------------------------------------------------
(* JavaScript values *)

\* undefined / null / '' : every falsy value the handlers test for
Undef == "undefined"

Truthy(v) == v # Undef

\* a || b || c || d
Or4(a, b, c, d) ==
    IF Truthy(a) THEN a ELSE IF Truthy(b) THEN b ELSE IF Truthy(c) THEN c ELSE d

Min(a, b) == IF a <= b THEN a ELSE b

\* File objects of the SDK.  oid is the object's identity; oid = 0 is
\* null/undefined.  size is <<>> when the object has no size property.
MkFile(oid, nodeId, h, nodeID, id, name, size) ==
    [oid |-> oid, nodeId |-> nodeId, h |-> h, nodeID |-> nodeID, id |-> id,
     name |-> name, size |-> size]

NullFile == MkFile(0, Undef, Undef, Undef, Undef, <<>>, <<>>)

IsObj(f) == f.oid # 0

\* uploadedFile?.p : undefined when uploadedFile is null
Prop(f, p) == IF IsObj(f) THEN f[p] ELSE Undef

----------------------------------------------------------------------------
(* POST /upload-book: names and handle extraction *)

SafeChars == {"a", "b", "o", "k", "p", "d", "f", ".", "_", "-", "0", "1"}

\* originalName.replace(/[^a-zA-Z0-9._-]/g, '_')
Sanitize(name) ==
    [i \in 1..Len(name) |-> IF name[i] \in SafeChars THEN name[i] ELSE "_"]

DefaultName == <<"b", "o", "o", "k", ".", "p", "d", "f">>

\* req.body.filename || req.file.originalname || 'book.pdf'
OriginalName(bodyName, fileName) ==
    IF bodyName # <<>> THEN bodyName
    ELSE IF fileName # <<>> THEN fileName
    ELSE DefaultName

\* the precedence with h ahead of nodeId
HandleOfHFirst(f) == Or4(Prop(f, "h"), Prop(f, "nodeId"), Prop(f, "nodeID"), Prop(f, "id"))

\* f.nodeId || f.h || f.nodeID || f.id
HandleOf(f) == Or4(Prop(f, "nodeId"), Prop(f, "h"), Prop(f, "nodeID"), Prop(f, "id"))

\* client.files as the handlers read it: defined is FALSE when the property
\* is undefined, entries are the object's own properties in insertion order.
NoFiles == [defined |-> FALSE, entries |-> <<>>]

EmptyFiles == [defined |-> TRUE, entries |-> <<>>]

\* index of the first element of a sequence that satisfies Test, 0 if none
FirstIndex(seq, Test(_)) ==
    IF \E i \in 1..Len(seq) : Test(seq[i])
    THEN CHOOSE i \in 1..Len(seq) : Test(seq[i]) /\ \A j \in 1..(i-1) : ~Test(seq[j])
    ELSE 0

\* for (const f of Object.values(client.files)) if (f && f.name === safeName) {...; break}
HandleByName(cfiles, safeName) ==
    LET Named(e) == IsObj(e.file) /\ e.file.name = safeName
        i == FirstIndex(cfiles.entries, Named)
    IN  IF i = 0 THEN Undef ELSE HandleOf(cfiles.entries[i].file)

\* lines 88-100: the handle of an upload
ExtractHandle(uploadedFile, cfiles, safeName) ==
    LET direct == HandleOf(uploadedFile)
    IN  IF ~Truthy(direct) /\ cfiles.defined
        THEN HandleByName(cfiles, safeName)
        ELSE direct

----------------------------------------------------------------------------
(* GET /download/:fileHandle: the lookup *)

\* the cache read with a test of the entry's expiresAt added
CachedFileUnexpired(cache, handle) ==
    IF handle \in DOMAIN cache /\ now < cache[handle].expiresAt
    THEN cache[handle].file
    ELSE NullFile

\* recentUploads.get(fileHandle) || null, then cached ? cached.file : null
CachedFile(cache, handle) ==
    IF handle \in DOMAIN cache THEN cache[handle].file ELSE NullFile

\* client.files[fileHandle]
FileByKey(cfiles, handle) ==
    LET Keyed(e) == e.key = handle
        i == FirstIndex(cfiles.entries, Keyed)
    IN  IF i = 0 THEN NullFile ELSE cfiles.entries[i].file

\* Object.values(client.files).find(f => f && (f.nodeId === h || f.h === h || f.id === h))
FileByProp(cfiles, handle) ==
    LET Match(e) == IsObj(e.file) /\
                    (e.file.nodeId = handle \/ e.file.h = handle \/ e.file.id = handle)
        i == FirstIndex(cfiles.entries, Match)
    IN  IF i = 0 THEN NullFile ELSE cfiles.entries[i].file

\* lines 156-165
FindFile(cache, cfiles, handle) ==
    LET file == CachedFile(cache, handle)
    IN  IF ~IsObj(file) /\ cfiles.defined
        THEN IF IsObj(FileByKey(cfiles, handle))
             THEN FileByKey(cfiles, handle)
             ELSE FileByProp(cfiles, handle)
        ELSE file

\* Number(file.size) || 0
TotalSize(file) == IF file.size = <<>> THEN 0 ELSE file.size[1]

----------------------------------------------------------------------------
(* GET /download/:fileHandle: the Range header *)

\* A header is a sequence of tokens: the literal "bytes=", "-", a decimal
\* digit, or "x" for any other character.  <<>> is an absent (or empty) header.
DigitChars == <<"0", "1", "2", "3", "4", "5", "6", "7", "8", "9">>

IsDigit(c) == \E d \in 1..Len(DigitChars) : DigitChars[d] = c

DigitVal(c) == (CHOOSE d \in 1..Len(DigitChars) : DigitChars[d] = c) - 1

\* length of the longest run of digits of hdr that starts at position i
RECURSIVE DigitRun(_, _)
DigitRun(hdr, i) ==
    IF i <= Len(hdr) /\ IsDigit(hdr[i]) THEN 1 + DigitRun(hdr, i + 1) ELSE 0

\* parseInt(digits, 10) of a non-empty string of digits
RECURSIVE ParseInt(_)
ParseInt(digits) ==
    IF digits = <<>> THEN 0
    ELSE 10 * ParseInt(SubSeq(digits, 1, Len(digits) - 1)) + DigitVal(digits[Len(digits)])

\* /bytes=(\d*)-(\d*)/ matches at position i: "bytes=", the longest run of
\* digits (no shorter run can be followed by "-"), then "-"
MatchesAt(hdr, i) ==
    /\ hdr[i] = "bytes="
    /\ i + 1 + DigitRun(hdr, i + 1) <= Len(hdr)
    /\ hdr[i + 1 + DigitRun(hdr, i + 1)] = "-"

\* /bytes=(\d*)-(\d*)/.exec(rangeHeader): the leftmost match and its two groups
RegexExec(hdr) ==
    LET At(i) == MatchesAt(hdr, i)
        idx == [k \in 1..Len(hdr) |-> k]
        i == FirstIndex(idx, At)
        n1 == DigitRun(hdr, i + 1)
        n2 == DigitRun(hdr, i + 2 + n1)
    IN  IF i = 0 THEN [ok |-> FALSE, g1 |-> <<>>, g2 |-> <<>>]
        ELSE [ok |-> TRUE,
              g1 |-> SubSeq(hdr, i + 1, i + n1),
              g2 |-> SubSeq(hdr, i + 2 + n1, i + 1 + n1 + n2)]

\* lines 209-210
RangeStart(m) == IF m.g1 # <<>> THEN ParseInt(m.g1) ELSE 0

RangeEnd(m, totalSize) == IF m.g2 # <<>> THEN ParseInt(m.g2) ELSE totalSize - 1

\* line 212 (parseInt of a string of digits is never NaN)
RejectsRange(start, end) == start > end \/ start < 0

\* line 216 left out
ClampEndNot(end, totalSize) == end

\* line 216
ClampEnd(end, totalSize) == Min(end, totalSize - 1)

----------------------------------------------------------------------------
(* Requests, responses and the SDK's objects *)

Clients == 1..MaxClients

FreeReq == [pc |-> "free", kind |-> "none", client |-> 0, name |-> <<>>]

NoOut ==
    [ev |-> "none", kind |-> "none", status |-> 0, success |-> FALSE,
     error |-> "", handle |-> Undef, file |-> NullFile, cached |-> FALSE,
     range |-> <<>>, length |-> <<>>, stream |-> "none", tried |-> 0,
     unready |-> FALSE, client |-> 0,
     \* the request's inputs: its name, Range header, and the calls that throw
     name |-> <<>>, hdr |-> <<>>, thr |-> {}]

\* res.status(code).json({ success: false, error })
JsonError(kind, code, error) ==
    [NoOut EXCEPT !.ev = "response", !.kind = kind, !.status = code, !.error = error]

StatusOf(c) == IF c = 0 THEN "null" ELSE status[c]

\* the Storage objects constructed so far
Born == {c \in Clients : status[c] # "unborn"}

\* the value of a Map after set(key, value)
MapSet(map, key, value) ==
    [k \in DOMAIN map \cup {key} |-> IF k = key THEN value ELSE map[k]]

\* the value of a Map after delete(key)
MapDelete(map, key) == [k \in DOMAIN map \ {key} |-> map[k]]

\* client.files after the SDK stores file under key (an existing property
\* keeps its place in the enumeration order)
Register(cfiles, key, file) ==
    LET Keyed(e) == e.key = key
        i == FirstIndex(cfiles.entries, Keyed)
        entry == [key |-> key, file |-> file]
    IN  [defined |-> TRUE,
         entries |-> IF i = 0 THEN Append(cfiles.entries, entry)
                     ELSE [cfiles.entries EXCEPT ![i] = entry]]

\* what a handler may read as client.files: the listing once the Storage is
\* ready; before that the property is unset or still empty
FilesSeenBy(c) ==
    IF StatusOf(c) = "ready" THEN {files} ELSE {NoFiles, EmptyFiles}

----------------------------------------------------------------------------
(* GET /download/:fileHandle: the response, lines 167-250 *)

\* the ranged branch trying the object form first
RangedStreamObjectFirst(thr) ==
    IF 2 \notin thr THEN [stream |-> "object", tried |-> 1]
    ELSE IF 1 \notin thr THEN [stream |-> "numeric", tried |-> 2]
    ELSE IF 3 \notin thr THEN [stream |-> "full", tried |-> 3]
    ELSE [stream |-> "none", tried |-> 3]

\* The stream the ranged branch pipes, lines 224-236.  thr is the set of
\* file.download call forms that throw: 1 is download(start, end),
\* 2 is download({start, end}), 3 is download().
RangedStream(thr) ==
    IF 1 \notin thr THEN [stream |-> "numeric", tried |-> 1]
    ELSE IF 2 \notin thr THEN [stream |-> "object", tried |-> 2]
    ELSE IF 3 \notin thr THEN [stream |-> "full", tried |-> 3]
    ELSE [stream |-> "none", tried |-> 3]

\* The response to a download whose lookup gave `file`.
DownloadResponse(handle, file, hdr, thr) ==
    LET base == [NoOut EXCEPT !.ev = "response", !.kind = "download",
                              !.handle = handle, !.hdr = hdr, !.thr = thr]
        totalSize == TotalSize(file)
        m == RegexExec(hdr)
        start == RangeStart(m)
        end == RangeEnd(m, totalSize)
        clamped == ClampEnd(end, totalSize)
        chunkSize == (clamped - start) + 1
        rs == RangedStream(thr)
    IN  IF ~IsObj(file)
        THEN [base EXCEPT !.status = 404, !.error = "File not found"]
        ELSE IF hdr = <<>>
        THEN IF 3 \in thr
             \* file.download() throws: the catch of line 247
             THEN [base EXCEPT !.status = 500, !.error = "Download failed",
                               !.file = file, !.tried = 1]
             ELSE [base EXCEPT !.status = 200, !.success = TRUE, !.file = file,
                               !.length = <<totalSize>>, !.stream = "full",
                               !.tried = 1]
        ELSE IF ~m.ok
        THEN [base EXCEPT !.status = 416, !.error = "Malformed Range header",
                          !.file = file]
        ELSE IF RejectsRange(start, end)
        THEN [base EXCEPT !.status = 416, !.error = "Requested Range Not Satisfiable",
                          !.file = file]
        ELSE IF rs.stream = "none"
        \* all three calls throw: the catch of line 247 answers 500; the
        \* Content-Range header set at line 220 stays on the response
        THEN [base EXCEPT !.status = 500, !.error = "Download failed",
                          !.file = file, !.range = <<start, clamped, totalSize>>,
                          !.tried = rs.tried]
        ELSE [base EXCEPT !.status = 206, !.success = TRUE, !.file = file,
                          !.range = <<start, clamped, totalSize>>,
                          !.length = <<chunkSize>>,
                          !.stream = rs.stream, !.tried = rs.tried]

----------------------------------------------------------------------------
(* Handlers *)

\* The code of the download handler after `await getMegaClient()`, lines 155-250.
Respond(r, client, P) ==
    \E handle \in P.handles, dl \in P.downloads, cfiles \in FilesSeenBy(client) :
        LET hdr == dl.hdr
            thr == dl.thr
            cached == CachedFile(recentUploads, handle)
            file == FindFile(recentUploads, cfiles, handle)
            resp == DownloadResponse(handle, file, hdr, thr)
        IN  /\ out' = [resp EXCEPT
                          !.cached = IsObj(cached),
                          !.client = client,
                          \* client.files is read only when the cache gave no file
                          !.unready = ~IsObj(cached) /\ StatusOf(client) # "ready"]
            /\ reqs' = [reqs EXCEPT ![r] = FreeReq]
            /\ UNCHANGED <<creds, megaClient, status, files, recentUploads, timers,
                           now, nUploads, answered>>

\* The code of the upload handler after `await getMegaClient()` up to
\* `await uploadTask.complete`, lines 61-76.
CallUpload(r, client, P) ==
    \E bodyName \in P.bodyNames, fileName \in P.fileNames :
        LET safeName == Sanitize(OriginalName(bodyName, fileName))
        IN  /\ reqs' = [reqs EXCEPT ![r] = [pc |-> "awaitUpload", kind |-> "upload",
                                            client |-> client, name |-> safeName]]
            /\ out' = [NoOut EXCEPT !.ev = "client.upload", !.kind = "upload",
                                    !.client = client,
                                    !.unready = StatusOf(client) # "ready"]
            /\ UNCHANGED <<creds, megaClient, status, files, recentUploads, timers,
                           now, nUploads, answered>>

\* What a handler does with the client getMegaClient returned.
Proceed(r, kind, client, P) ==
    IF kind = "upload" THEN CallUpload(r, client, P) ELSE Respond(r, client, P)

\* lines 29-31: the credentials are missing; the handler's catch answers 500
CredsMissing(kind) ==
    /\ out' = JsonError(kind, 500, "MEGA credentials are not configured")
    /\ UNCHANGED <<creds, megaClient, status, reqs, files, recentUploads,
                   timers, now, nUploads, answered>>

\* lines 34-41: megaClient = new Storage(...), then `await megaClient.ready`
Connect(r, kind) ==
    \E c \in Clients :
        /\ c = Cardinality(Born) + 1
        /\ megaClient' = c
        /\ status' = [status EXCEPT ![c] = "pending"]
        /\ reqs' = [reqs EXCEPT ![r] = [pc |-> "awaitReady", kind |-> kind,
                                        client |-> c, name |-> <<>>]]
        /\ out' = [NoOut EXCEPT !.ev = "new Storage", !.kind = kind, !.client = c]
        /\ UNCHANGED <<creds, files, recentUploads, timers, now, nUploads, answered>>

\* getMegaClient without the test of line 33
GetMegaClientAlwaysConnects(r, kind, P) ==
    IF ~creds THEN CredsMissing(kind) ELSE Connect(r, kind)

\* getMegaClient without the test of line 29
GetMegaClientNoCredsTest(r, kind, P) ==
    IF megaClient = 0 THEN Connect(r, kind) ELSE Proceed(r, kind, megaClient, P)

\* getMegaClient called by a new request, lines 27-50, up to its first await
\* or its return.
GetMegaClient(r, kind, P) ==
    IF ~creds THEN CredsMissing(kind)
    ELSE IF megaClient = 0 THEN Connect(r, kind)
    ELSE Proceed(r, kind, megaClient, P)

\* the slot a new request takes: the lowest free one
IsFreeSlot(r, P) ==
    /\ r \in P.slots
    /\ reqs[r].pc = "free"
    /\ \A q \in P.slots : q < r => reqs[q].pc # "free"

\* POST /upload-book arrives, lines 53-59
UploadStart(r, P) ==
    /\ IsFreeSlot(r, P)
    /\ \E hasFile \in BOOLEAN :
        IF ~hasFile
        THEN /\ out' = JsonError("upload", 400, "No file uploaded")
             /\ UNCHANGED <<creds, megaClient, status, reqs, files, recentUploads,
                            timers, now, nUploads, answered>>
        ELSE GetMegaClient(r, "upload", P)

\* GET /download/:fileHandle arrives, lines 145-153 (the router only
\* dispatches a path with a non-empty handle)
DownloadStart(r, P) ==
    /\ IsFreeSlot(r, P)
    /\ GetMegaClient(r, "download", P)

\* `await megaClient.ready` resumes, lines 41-42 and 49
ConnectOk(r, P) ==
    /\ r \in P.slots
    /\ reqs[r].pc = "awaitReady"
    /\ status[reqs[r].client] = "ready"
    /\ Proceed(r, reqs[r].kind, megaClient, P)

\* `await megaClient.ready` throws, lines 43-47, then the handler's catch
ConnectFail(r, P) ==
    /\ r \in P.slots
    /\ reqs[r].pc = "awaitReady"
    /\ status[reqs[r].client] = "failed"
    /\ megaClient' = 0
    /\ reqs' = [reqs EXCEPT ![r] = FreeReq]
    /\ out' = [JsonError(reqs[r].kind, 500, "MEGA connection failed")
                  EXCEPT !.client = reqs[r].client]
    /\ UNCHANGED <<creds, status, files, recentUploads, timers, now, nUploads,
                   answered>>

\* The object `uploadTask.complete` resolves to: shape gives its handle
\* properties (obj is FALSE for null/undefined).
UploadedFile(shape, oid, name, size) ==
    IF shape.obj
    THEN MkFile(oid, shape.nodeId, shape.h, shape.nodeID, shape.id, name, size)
    ELSE NullFile

\* lines 109-115: the cache entry and its eviction timer
CacheEntry(file) == [file |-> file, expiresAt |-> now + TtlUnits]

EvictionTimer(handle, id) ==
    [handle |-> handle, due |-> now + TtlUnits + EvictPadUnits, id |-> id]

\* `await uploadTask.complete` resumes, lines 76-129.  The SDK has stored
\* the new node in client.files under regKey (or not at all) by then.
UploadComplete(r, P) ==
    /\ r \in P.slots
    /\ reqs[r].pc = "awaitUpload"
    /\ status[reqs[r].client] = "ready"
    /\ nUploads < MaxUploads
    /\ now + TtlUnits + EvictPadUnits <= MaxTime
    /\ \E shape \in P.shapes, size \in P.sizes, regKey \in P.regKeys :
        LET safeName == reqs[r].name
            uploadedFile == UploadedFile(shape, nUploads + 1, safeName, size)
            cfiles == IF IsObj(uploadedFile) /\ Truthy(regKey)
                      THEN Register(files, regKey, uploadedFile)
                      ELSE files
            fileHandle == ExtractHandle(uploadedFile, cfiles, safeName)
        IN  /\ files' = cfiles
            /\ nUploads' = nUploads + 1
            /\ reqs' = [reqs EXCEPT ![r] = FreeReq]
            /\ IF ~Truthy(fileHandle)
               THEN /\ out' = [JsonError("upload", 500,
                                         "File uploaded but could not extract handle")
                                  EXCEPT !.file = uploadedFile, !.name = safeName]
                    /\ UNCHANGED <<recentUploads, timers, answered>>
               ELSE /\ recentUploads' =
                           MapSet(recentUploads, fileHandle, CacheEntry(uploadedFile))
                    /\ timers' = timers \cup {EvictionTimer(fileHandle, nUploads + 1)}
                    /\ answered' =
                           MapSet(answered, fileHandle, CacheEntry(uploadedFile))
                    /\ out' = [NoOut EXCEPT !.ev = "response", !.kind = "upload",
                                            !.status = 200, !.success = TRUE,
                                            !.handle = fileHandle,
                                            !.file = uploadedFile,
                                            !.name = safeName]
            /\ UNCHANGED <<creds, megaClient, status, now>>

\* `await uploadTask.complete` throws, lines 131-137
UploadReject(r, P) ==
    /\ r \in P.slots
    /\ reqs[r].pc = "awaitUpload"
    /\ reqs' = [reqs EXCEPT ![r] = FreeReq]
    /\ out' = JsonError("upload", 500, "Upload failed")
    /\ UNCHANGED <<creds, megaClient, status, files, recentUploads, timers, now,
                   nUploads, answered>>

\* the callback calling recentUploads.delete with something that is no key
EvictNothing(t) ==
    /\ t \in timers
    /\ t.due <= now
    /\ timers' = timers \ {t}
    /\ out' = [NoOut EXCEPT !.ev = "evict", !.handle = t.handle]
    /\ UNCHANGED <<creds, megaClient, status, reqs, files, recentUploads, now,
                   nUploads, answered>>

\* the setTimeout callback of lines 112-115
Evict(t) ==
    /\ t \in timers
    /\ t.due <= now
    /\ recentUploads' = MapDelete(recentUploads, t.handle)
    /\ timers' = timers \ {t}
    /\ out' = [NoOut EXCEPT !.ev = "evict", !.handle = t.handle]
    /\ UNCHANGED <<creds, megaClient, status, reqs, files, now, nUploads, answered>>

----------------------------------------------------------------------------
(* Environment *)

\* a Storage's `ready` promise resolves
StorageReady(c) ==
    /\ status[c] = "pending"
    /\ status' = [status EXCEPT ![c] = "ready"]
    /\ out' = NoOut
    /\ UNCHANGED <<creds, megaClient, reqs, files, recentUploads, timers, now,
                   nUploads, answered>>

\* a Storage's `ready` promise rejects
StorageFail(c) ==
    /\ status[c] = "pending"
    /\ status' = [status EXCEPT ![c] = "failed"]
    /\ out' = NoOut
    /\ UNCHANGED <<creds, megaClient, reqs, files, recentUploads, timers, now,
                   nUploads, answered>>

\* the clock advances by 1000 ms
Tick ==
    /\ now < MaxTime
    /\ now' = now + 1
    /\ out' = NoOut
    /\ UNCHANGED <<creds, megaClient, status, reqs, files, recentUploads, timers,
                   nUploads, answered>>

----------------------------------------------------------------------------
(* Inputs *)

Handles == {"ha", "hb"}

Shape(obj, nodeId, h, nodeID, id) ==
    [obj |-> obj, nodeId |-> nodeId, h |-> h, nodeID |-> nodeID, id |-> id]

\* the decimal digits of n, as String(n) writes them
RECURSIVE Decimal(_)
Decimal(n) ==
    IF n < 10 THEN <<DigitChars[n + 1]>>
    ELSE Append(Decimal(n \div 10), DigitChars[(n % 10) + 1])

\* the numbers written in Range headers, and "" for an omitted number
RangeNumbers == {<<>>} \cup {Decimal(n) : n \in 0..MaxRangeNumber}

\* a download's Range header and the file.download calls that throw in it
Download(hdr, thr) == [hdr |-> hdr, thr |-> thr]

\* "bytes=<first>-<last>"
BytesHeader(first, last) == <<"bytes=">> \o first \o <<"-">> \o last

\* The requests of the concurrent system: two requests may overlap, uploads
\* return their handle in nodeId (or nothing at all), downloads ask for the
\* whole file or a chunk.
System ==
    [slots     |-> 1..MaxInflight,
     bodyNames |-> {<<"a">>},
     fileNames |-> {<<>>},
     shapes    |-> {Shape(TRUE, h, Undef, Undef, Undef) : h \in Handles}
                   \cup {Shape(TRUE, Undef, Undef, Undef, Undef)},
     sizes     |-> {<<3>>},
     regKeys   |-> {Undef},
     handles   |-> Handles,
     downloads |-> {Download(<<>>, {})}]

\* The requests of the Range study: one request at a time; a file of any
\* size is uploaded and then downloaded with any Range header built from
\* "bytes=", digits and "-", or with a header the pattern does not match;
\* any of the three forms of file.download may throw (every combination is
\* tried with ThrowHeaders).
RangeHeaders ==
    {<<>>}
    \cup {BytesHeader(first, last) : first \in RangeNumbers, last \in RangeNumbers}
    \cup {BytesHeader(Decimal(10), Decimal(12)), BytesHeader(Decimal(1), Decimal(10)),
          BytesHeader(<<"0", "1">>, <<"0", "2">>)}
    \cup {<<"x">>, <<"bytes=", "1">>, <<"bytes=", "x", "-", "1">>,
          <<"x", "bytes=", "1", "-", "2", "x">>, <<"bytes=", "1", "bytes=", "-", "2">>}

\* the headers tried with every combination of throwing calls
ThrowHeaders ==
    {<<>>, BytesHeader(<<>>, <<>>), BytesHeader(Decimal(0), Decimal(1)),
     BytesHeader(Decimal(1), Decimal(3))}

Ranges ==
    [slots     |-> {1},
     bodyNames |-> {<<"a">>},
     fileNames |-> {<<>>},
     shapes    |-> {Shape(TRUE, "ha", Undef, Undef, Undef)},
     sizes     |-> {<<>>} \cup {<<n>> : n \in 0..MaxSize},
     regKeys   |-> {Undef},
     handles   |-> {"ha"},
     downloads |-> {Download(hdr, {}) : hdr \in RangeHeaders}
                   \cup {Download(hdr, thr) : hdr \in ThrowHeaders,
                                              thr \in SUBSET {1, 2, 3}}]

\* The requests of the extraction study: one request at a time; uploads
\* resolve to null, to an object without a handle, to one with a handle in
\* any one property, or to one with two different handles in neighbouring
\* properties of the precedence order; the SDK lists the object under any
\* key or not at all; names collide after sanitizing.
HandleShapes ==
    {Shape(FALSE, Undef, Undef, Undef, Undef),
     Shape(TRUE, Undef, Undef, Undef, Undef),
     Shape(TRUE, "ha", Undef, Undef, Undef),
     Shape(TRUE, Undef, "ha", Undef, Undef),
     Shape(TRUE, Undef, Undef, "ha", Undef),
     Shape(TRUE, Undef, Undef, Undef, "ha"),
     Shape(TRUE, "ha", "hb", Undef, Undef),
     Shape(TRUE, Undef, "ha", "hb", Undef),
     Shape(TRUE, Undef, Undef, "ha", "hb")}

Extractions ==
    [slots     |-> {1},
     bodyNames |-> {<<>>, <<"a", " ">>},
     fileNames |-> {<<>>, <<"a", "_">>},
     shapes    |-> HandleShapes,
     sizes     |-> {<<3>>},
     regKeys   |-> {Undef} \cup Handles,
     handles   |-> Handles,
     downloads |-> {Download(<<>>, {})}]

\* The requests of the lookup study: one request at a time; uploads resolve
\* to null or to an object with at most one handle property; the SDK lists
\* the object under any key or not at all; the clock runs and timers fire.
Lookups ==
    [slots     |-> {1},
     bodyNames |-> {<<"a">>},
     fileNames |-> {<<>>},
     shapes    |-> {sh \in HandleShapes :
                       Cardinality({q \in {"nodeId", "h", "nodeID", "id"} :
                                       Truthy(sh[q])}) <= 1},
     sizes     |-> {<<3>>},
     regKeys   |-> {Undef} \cup Handles,
     handles   |-> Handles,
     downloads |-> {Download(<<>>, {})}]

\* The requests of the eviction study: concurrent uploads whose result
\* carries its handle in nodeId, and downloads of the same handles.
Evictions ==
    [slots     |-> 1..MaxInflight,
     bodyNames |-> {<<"a">>},
     fileNames |-> {<<>>},
     shapes    |-> {Shape(TRUE, h, Undef, Undef, Undef) : h \in Handles},
     sizes     |-> {<<3>>},
     regKeys   |-> {Undef},
     handles   |-> Handles,
     downloads |-> {Download(<<>>, {})}]

----------------------------------------------------------------------------
(* Specifications *)

Init ==
    /\ creds \in BOOLEAN
    /\ megaClient = 0
    /\ status = [c \in Clients |-> "unborn"]
    /\ reqs = [r \in 1..MaxInflight |-> FreeReq]
    /\ files = EmptyFiles
    /\ recentUploads = <<>>
    /\ timers = {}
    /\ now = 0
    /\ nUploads = 0
    /\ answered = <<>>
    /\ out = NoOut

\* a due timer fires
EvictSome == \E t \in timers : Evict(t)

NextOver(P) ==
    \/ \E r \in P.slots : UploadStart(r, P)
    \/ \E r \in P.slots : DownloadStart(r, P)
    \/ \E r \in P.slots : ConnectOk(r, P)
    \/ \E r \in P.slots : ConnectFail(r, P)
    \/ \E r \in P.slots : UploadComplete(r, P)
    \/ \E r \in P.slots : UploadReject(r, P)
    \/ EvictSome
    \/ \E c \in Clients : StorageReady(c)
    \/ \E c \in Clients : StorageFail(c)
    \/ Tick

Next == NextOver(System)

Spec == Init /\ [][Next]_vars

\* Uploads and downloads over a connection that succeeds, the clock standing
NextRanges ==
    \/ UploadStart(1, Ranges)
    \/ DownloadStart(1, Ranges)
    \/ ConnectOk(1, Ranges)
    \/ UploadComplete(1, Ranges)
    \/ \E c \in Clients : StorageReady(c)

SpecRanges == Init /\ [][NextRanges]_vars

\* Uploads over a connection that succeeds, the clock standing
NextExtractions ==
    \/ UploadStart(1, Extractions)
    \/ ConnectOk(1, Extractions)
    \/ UploadComplete(1, Extractions)
    \/ UploadReject(1, Extractions)
    \/ \E c \in Clients : StorageReady(c)

SpecExtractions == Init /\ [][NextExtractions]_vars

\* Uploads, downloads and evictions over a connection that succeeds
NextLookups ==
    \/ UploadStart(1, Lookups)
    \/ DownloadStart(1, Lookups)
    \/ ConnectOk(1, Lookups)
    \/ UploadComplete(1, Lookups)
    \/ \E c \in Clients : StorageReady(c)
    \/ EvictSome
    \/ Tick

SpecLookups == Init /\ [][NextLookups]_vars

\* The event loop runs every due timer callback and the clock advances.
FairSpec == Spec /\ WF_vars(Tick) /\ WF_vars(EvictSome)

\* Concurrent uploads, downloads and evictions over a connection that succeeds
NextEvictions ==
    \/ \E r \in Evictions.slots : UploadStart(r, Evictions)
    \/ \E r \in Evictions.slots : DownloadStart(r, Evictions)
    \/ \E r \in Evictions.slots : ConnectOk(r, Evictions)
    \/ \E r \in Evictions.slots : UploadComplete(r, Evictions)
    \/ \E c \in Clients : StorageReady(c)
    \/ EvictSome
    \/ Tick

SpecEvictions == Init /\ [][NextEvictions]_vars

FairEvictions == SpecEvictions /\ WF_vars(Tick) /\ WF_vars(EvictSome)

----------------------------------------------------------------------------
(* Properties *)

IsResponse(o, kind) == o.ev = "response" /\ o.kind = kind

\* the least element of a non-empty set of numbers
Least(S) == CHOOSE i \in S : \A j \in S : i <= j

\* the numbers the Range properties quantify over
RangeValues == (0..MaxRangeNumber) \cup {10, 12}

\* the header "bytes=s-e", either number omitted when its flag is FALSE
HeaderOf(hasS, s, hasE, e) ==
    BytesHeader(IF hasS THEN Decimal(s) ELSE <<>>, IF hasE THEN Decimal(e) ELSE <<>>)

\* a download that found its file
FoundDownload == IsResponse(out, "download") /\ IsObj(out.file)

\* C1: a 206 is sent only for 0 <= start <= end <= T-1, so that
\* Content-Length >= 1.
C1_UnsatisfiableRangeIs416 ==
    (FoundDownload /\ out.status = 206)
    => (/\ 0 <= out.range[1]
        /\ out.range[1] <= out.range[2]
        /\ out.range[2] <= out.range[3] - 1
        /\ out.length[1] >= 1)

\* the headers of a download of "bytes=s-e" of a file of size T, as C2 states them
RangeHeadersAsStated(o, s, e, T) ==
    /\ o.range = <<s, Min(e, T - 1), T>>
    /\ o.length = <<Min(e, T - 1) - s + 1>>

C3_CacheGuaranteesLookup ==
    (/\ IsResponse(out, "download")
     /\ out.status # 500
     /\ out.handle \in DOMAIN answered
     /\ IsObj(answered[out.handle].file)
     /\ now < answered[out.handle].expiresAt)
    => (/\ out.cached
        /\ out.file = answered[out.handle].file
        /\ out.status # 404)

\* C4: every cached entry has a pending eviction timer due no later than
\* 1000 ms after its expiresAt; recentUploads eventually becomes empty and
\* stays empty; a handle enters recentUploads only by an upload answering
\* success for it.
C4_EveryEntryEvicted ==
    /\ [](\A h \in DOMAIN recentUploads :
             \E t \in timers : /\ t.handle = h
                               /\ t.due <= recentUploads[h].expiresAt + EvictPadUnits)
    /\ <>[](DOMAIN recentUploads = {})
    /\ [][\A h \in Handles :
             (h \notin DOMAIN recentUploads /\ h \in DOMAIN recentUploads')
             => (IsResponse(out', "upload") /\ out'.success /\ out'.handle = h)]_vars

C4_Witness ==
    /\ out.ev = "evict"
    /\ out.handle \in DOMAIN answered
    /\ DOMAIN recentUploads = {}

\* a ranged download that passed the checks of lines 205-214
AcceptedRange == FoundDownload /\ out.hdr # <<>> /\ out.status # 416

\* the call whose stream is piped: the first of the three that does not throw
StreamInOrder ==
    /\ out.stream = "numeric" <=> 1 \notin out.thr
    /\ out.stream = "object" <=> (1 \in out.thr /\ 2 \notin out.thr)
    /\ out.stream = "full" <=> ({1, 2} \subseteq out.thr /\ 3 \notin out.thr)
    /\ out.stream = "full" => (out.status = 206 /\ out.range # <<>> /\ out.length # <<>>)

RequestFailures ==
    {"MEGA credentials are not configured", "MEGA connection failed",
     "Upload failed", "File uploaded but could not extract handle"}

C6_FailuresAnswer500 ==
    /\ [][(out'.ev = "response" /\ (out'.error \in RequestFailures \/ out'.status = 500))
          => (/\ out'.status = 500
              /\ ~out'.success
              /\ recentUploads' = recentUploads)]_vars
    /\ [][recentUploads' # recentUploads
          => (out'.ev = "evict" \/ (IsResponse(out', "upload") /\ out'.success))]_vars
    /\ [](~creds => (megaClient = 0 /\ Born = {}))
    /\ [][(~creds /\ out'.ev = "response" /\ out'.status # 400)
          => out'.error = "MEGA credentials are not configured"]_vars

C6_Witness ==
    /\ IsResponse(out, "upload")
    /\ out.status = 500
    /\ out.error = "File uploaded but could not extract handle"
    /\ DOMAIN recentUploads # {}

\* the first truthy of nodeId, h, nodeID, id
FirstHandle(f) ==
    IF ~IsObj(f) THEN Undef
    ELSE IF f.nodeId # Undef THEN f.nodeId
    ELSE IF f.h # Undef THEN f.h
    ELSE IF f.nodeID # Undef THEN f.nodeID
    ELSE f.id

\* the identifier of an upload as C7 states it
StatedIdentifier(uploadedFile, safeName) ==
    LET named == {i \in 1..Len(files.entries) : files.entries[i].file.name = safeName}
    IN  IF FirstHandle(uploadedFile) # Undef THEN FirstHandle(uploadedFile)
        ELSE IF named # {} THEN FirstHandle(files.entries[Least(named)].file)
        ELSE Undef

\* an upload that the SDK completed
CompletedUpload ==
    /\ IsResponse(out, "upload")
    /\ out.error \notin {"No file uploaded", "MEGA credentials are not configured",
                         "MEGA connection failed", "Upload failed"}

\* C7: the identifier is the first truthy of uploadedFile's nodeId, h,
\* nodeID, id, else that of the first entry of client.files named like the
\* sanitized upload; the upload answers success with that identifier in
\* bookUrl iff there is one, else 500 'could not extract handle'.
C7_HandleExtraction ==
    CompletedUpload =>
        LET ident == StatedIdentifier(out.file, out.name)
        IN  IF ident # Undef
            THEN out.status = 200 /\ out.success /\ out.handle = ident
            ELSE /\ out.status = 500
                 /\ ~out.success
                 /\ out.error = "File uploaded but could not extract handle"

\* an identifier taken from the second property, and one taken from client.files
C7_Witness ==
    /\ CompletedUpload
    /\ out.status = 200
    /\ \/ (out.file.nodeId = Undef /\ out.file.h = "ha" /\ out.file.nodeID = "hb")
       \/ (FirstHandle(out.file) = Undef /\ out.handle = "ha")
    /\ Len(files.entries) = 2

\* a download that reached the lookup
LookedUp == IsResponse(out, "download") /\ out.status # 500

\* the file client.files gives for a handle: files[handle], else the first
\* value whose nodeId, h or id is the handle, else none
StatedListingFile(handle) ==
    LET keyed == {i \in 1..Len(files.entries) : files.entries[i].key = handle}
        match == {i \in 1..Len(files.entries) :
                     \/ files.entries[i].file.nodeId = handle
                     \/ files.entries[i].file.h = handle
                     \/ files.entries[i].file.id = handle}
    IN  IF keyed # {} THEN files.entries[Least(keyed)].file
        ELSE IF match # {} THEN files.entries[Least(match)].file
        ELSE NullFile

\* a 404 sets no download header and opens no stream
Bare404 ==
    out.status = 404
    => (out.error = "File not found" /\ out.length = <<>> /\ out.range = <<>>
        /\ out.stream = "none" /\ out.tried = 0)

\* C8 as stated: the cached entry is used whenever the handle is in the map;
\* else client.files[handle]; else the first value whose nodeId, h or id is
\* the handle; 404 iff all three fail.
C8_LookupOrderAsStated ==
    LookedUp =>
        LET file == IF out.handle \in DOMAIN recentUploads
                    THEN recentUploads[out.handle].file
                    ELSE StatedListingFile(out.handle)
        IN  /\ out.handle \in DOMAIN recentUploads => out.status # 404
            /\ out.file = file
            /\ out.status = 404 <=> ~IsObj(file)
            /\ Bare404

\* C8 amended: the cached entry is used whenever the handle is in the map
\* and the entry holds a file object, expired or not; an entry holding
\* null/undefined counts as a miss.
C8_LookupOrder ==
    LookedUp =>
        LET hit == /\ out.handle \in DOMAIN recentUploads
                   /\ IsObj(recentUploads[out.handle].file)
            file == IF hit THEN recentUploads[out.handle].file
                    ELSE StatedListingFile(out.handle)
        IN  /\ out.file = file
            /\ out.cached = hit
            /\ out.status = 404 <=> ~IsObj(file)
            /\ Bare404

\* an expired entry served from the cache while client.files lists another
\* file under the handle
C8_Witness ==
    /\ LookedUp
    /\ out.status = 200
    /\ out.cached
    /\ recentUploads[out.handle].expiresAt <= now
    /\ IsObj(StatedListingFile(out.handle))
    /\ StatedListingFile(out.handle) # out.file

\* C9: a Storage is constructed only while megaClient is null; once the
\* current client is ready no step replaces it or constructs another and
\* every call returns it; a failed attempt resets megaClient to null, and it
\* resets only its own client; at most one attempt is in progress.
C9_SingleLazyClient ==
    /\ [][/\ (Born' # Born => megaClient = 0)
          /\ (StatusOf(megaClient) = "ready"
              => (/\ megaClient' = megaClient
                  /\ Born' = Born
                  /\ (out'.ev = "client.upload" \/ IsResponse(out', "download"))
                     => out'.client = megaClient))
          /\ (out'.error = "MEGA connection failed"
              => (megaClient = out'.client /\ megaClient' = 0))
          /\ (megaClient # 0 /\ megaClient' = 0
              => out'.error = "MEGA connection failed")]_vars
    /\ [](Cardinality({c \in Clients : status[c] = "pending"}) <= 1)
    /\ [](Cardinality({r \in DOMAIN reqs : reqs[r].pc = "awaitReady"}) <= 1)

C9_Witness ==
    /\ megaClient = 2
    /\ status[1] = "failed"
    /\ status[2] = "ready"
    /\ IsResponse(out, "download")
    /\ out.client = 2

\* C10: no handler calls client.upload, or reads client.files, on a client
\* whose `ready` has not resolved.
C10_ClientReadyBeforeUse == ~out.unready

\* the files client.files lists whose upload answered with this handle: the
\* upload of a file object answers with the first truthy one of its nodeId,
\* h, nodeID, id
ListedFor(handle) ==
    {files.entries[i].file : i \in {j \in 1..Len(files.entries) :
                                      /\ IsObj(files.entries[j].file)
                                      /\ HandleOf(files.entries[j].file) = handle}}

\* client.files lists no other file under the handle as its key
KeyedAsListed(handle) ==
    \A i \in 1..Len(files.entries) :
        files.entries[i].key = handle => files.entries[i].file \in ListedFor(handle)

\* C11: a download of a handle that an upload answered with, made after the
\* handle's cache entry was evicted and while client.files lists the uploaded
\* file, finds that file in client.files and does not answer 404, whichever
\* of nodeId, h, nodeID and id the upload took the handle from.
C11_EvictedHandleStaysDownloadable ==
    (/\ LookedUp
     /\ out.handle \in DOMAIN answered
     /\ out.handle \notin DOMAIN recentUploads
     /\ ListedFor(out.handle) # {}
     /\ KeyedAsListed(out.handle))
    => (/\ out.status # 404
        /\ out.file \in ListedFor(out.handle))

====
